---- MODULE Spec2Model ----
(***************************************************************************)
(* Lot aggregation and statistics, derived pricing of and access to scan   *)
(* records, and activity-session tracking of APPvisionMRX                  *)
(* (server/routes.ts, server/storage.ts, shared/schema.ts).                *)
(*                                                                         *)
(* Units.  weightKg is held in tenths of a kilogram, pricePerKg and every  *)
(* monetary amount (numeric(_,2) columns) in cents, time in milliseconds   *)
(* (JavaScript Date).  Primary keys (gen_random_uuid) are modelled by the  *)
(* position of the row in its table.                                       *)
(***************************************************************************)
EXTENDS Integers, Sequences, FiniteSets, TLC

VARIABLES boards, lots, last, ops, sessions, reqs, lastStart, jobs,
          accounts, logins, now

lvars == <<boards, lots, last, ops>>
svars == <<sessions, reqs, lastStart>>
avars == <<accounts, logins>>
vars == <<boards, lots, last, ops, sessions, reqs, lastStart, jobs,
          accounts, logins, avars, now>>

----------------------------------------------------------------------------
(* Bounds of the model *)
MaxBoards == 2
MaxLots == 2
MaxIds == 2
MaxOps == 6
MaxSessions == 3
MaxReqs == 2
MaxJobs == 2
MaxRows == 3

(* Values of the schema *)
Null == -1
Absent == -2
NoLot == 0
NoSession == 0

MsPerSecond == 1000
MsPerDay == 86400000
ClockSteps == {700, 1000}
Users == {"admin", "u1"}
\* the userId of a body that has no userId key
Unset == "unset"
Role(u) == IF u = "admin" THEN "admin" ELSE "user"
LotNames == {"L1", "L2"}
\* the status column of a new lot: the status key of the body, or the column
\* default 'open' when the body has none
LotStatuses == {"open", "closed"}
BoardTypes == {"mainboard"}
\* the board types of the records whose statistics are read
StatTypes == {"mainboard", "powerboard"}
Weights == {15, 20}
Prices == {200, 300}

----------------------------------------------------------------------------
(* Helpers *)
RECURSIVE SumOver(_, _)
SumOver(f, S) ==
    IF S = {} THEN 0
    ELSE LET x == CHOOSE y \in S : TRUE IN f[x] + SumOver(f, S \ {x})

\* Number(v) || 0 : null, NaN and 0 all give 0
NumberOrZero(v) == IF v = Null THEN 0 ELSE v

\* a JavaScript number of currency units, here in thousandths (tenths of kg
\* times cents), written to a numeric(12,2) column: rounded half away from 0
ToNumeric2(milli) == (milli + 5) \div 10

\* Number(updates.weightKg) * Number(updates.pricePerKg), Number(null) = 0
ProductOf(w, p) == ToNumeric2(NumberOrZero(w) * NumberOrZero(p))

\* the ids a client can send: those of existing rows, and one that names no row
UnknownBoard == MaxBoards + 1
UnknownLot == MaxLots + 1
BoardIds == (1..Len(boards)) \cup {UnknownBoard}
LotIds == (1..Len(lots)) \cup {UnknownLot}

\* the boardIds arrays of a request: up to MaxIds different ids
BoardIdSeqs ==
    {q \in UNION {[1..n -> BoardIds] : n \in 0..MaxIds} :
        \A i, j \in 1..Len(q) : i # j => q[i] # q[j]}

Members(lotId) == {b \in 1..Len(boards) : boards[b].lotId = lotId}

LotExists(lotId) == lotId \in 1..Len(lots)

\* the request that completed last: its kind, HTTP status, caller and
\* arguments, the lots that lost a member by it, the number of consecutive
\* recomputations of one lot it ends, the boardsByType it answered, the rows
\* a listing answered, the outcome of the vision call of a scan, and the
\* query and the answer of an activity report
NoOp == [op |-> "none", status |-> 0, lot |-> 0, ids |-> <<>>, board |-> 0,
         lost |-> {}, caller |-> "none", name |-> "", run |-> 0,
         byType |-> <<>>, rows |-> <<>>, vision |-> "",
         query |-> [userId |-> Unset, startDate |-> Absent, endDate |-> Absent],
         stats |-> [totalSessions |-> 0, totalTimeMinutes |-> 0,
                    averageSessionMinutes |-> 0, activeDays |-> 0]]

\* the lots the rows belong to
LotsOf(rows) == {boards[b].lotId : b \in rows} \ {NoLot}

\* one more completed request; the model follows MaxOps requests
Count ==
    /\ ops < MaxOps
    /\ ops' = ops + 1

----------------------------------------------------------------------------
(* Accounts and login sessions.  accounts is the users table; logins holds *)
(* for each user the user object stored in the HTTP session at login.      *)

\* a user with no HTTP session
NoLogin == [role |-> "none", isActive |-> FALSE]

\* requireAuth : the HTTP session holds a user object
requireAuth(caller) == logins[caller] # NoLogin

\* POST /api/login with the right password: authenticateUser answers the
\* row of an active user, which the route stores in the session
Login(u) ==
    LET ok == accounts[u].isActive IN
    /\ Count
    /\ logins' = IF ok THEN [logins EXCEPT ![u] = accounts[u]] ELSE logins
    /\ last' = [NoOp EXCEPT !.op = "login", !.caller = u,
                            !.status = IF ok THEN 200 ELSE 401]
    /\ UNCHANGED <<boards, lots, svars, jobs, accounts, now>>

\* bodies of PUT /api/users/:id : req.body goes to the UPDATE unparsed, so
\* role and isActive are keys like any other
UserUpdates == [role : {"admin", "user", Unset}, isActive : {"true", "false", Unset}]

\* storage.updateUser : set the columns of the body
updateUser(id, updates) ==
    LET a1 == IF updates.role # Unset
                THEN [accounts[id] EXCEPT !.role = updates.role]
                ELSE accounts[id]
        a2 == IF updates.isActive # Unset
                THEN [a1 EXCEPT !.isActive = (updates.isActive = "true")]
                ELSE a1
    IN  [accounts EXCEPT ![id] = a2]

\* the user ids a client can send: those of the users, and one of no user
UnknownUser == "nobody"
UserIds == Users \cup {UnknownUser}

\* PUT /api/users/:id
PutUser(caller, id, updates) ==
    LET status ==
          IF ~requireAuth(caller) THEN 401
          ELSE IF logins[caller].role # "admin" /\ caller # id THEN 403
          ELSE IF id \notin Users THEN 404
          ELSE 200
    IN  /\ Count
        /\ accounts' = IF status = 200 THEN updateUser(id, updates)
                       ELSE accounts
        /\ last' = [NoOp EXCEPT !.op = "putUser", !.caller = caller,
                                !.status = status, !.name = id]
        /\ UNCHANGED <<boards, lots, svars, jobs, logins, now>>

\* storage.deactivateUser
deactivateUser(id) ==
    IF id \in Users THEN [accounts EXCEPT ![id].isActive = FALSE]
    ELSE accounts

\* DELETE /api/users/:id
DeactivateUser(caller, id) ==
    LET status ==
          IF ~requireAuth(caller) THEN 401
          ELSE IF logins[caller].role # "admin" THEN 403
          ELSE IF caller = id THEN 400
          ELSE 200
    IN  /\ Count
        /\ accounts' = IF status = 200 THEN deactivateUser(id) ELSE accounts
        /\ last' = [NoOp EXCEPT !.op = "deactivate", !.caller = caller,
                                !.status = status, !.name = id]
        /\ UNCHANGED <<boards, lots, svars, jobs, logins, now>>

\* the routes behind requireAuth that serve any logged-in user
UserRoutes == {"start", "scan", "list", "update"}

\* a request to one of these routes, up to the end of requireAuth and of the
\* test  if (!user)  on the user object of the session
AuthedRequest(caller, route) ==
    /\ Count
    /\ last' = [NoOp EXCEPT !.op = route, !.caller = caller,
                            !.status = IF requireAuth(caller) THEN 200 ELSE 401]
    /\ UNCHANGED <<boards, lots, svars, jobs, avars, now>>

----------------------------------------------------------------------------
(* Scan records *)

\* POST /api/scan : the record is created without weight, price or lot, with
\* the caller as userId; creator keeps the user who scanned (it is no column)
Scan(caller, bt) ==
    /\ Count
    /\ Len(boards) < MaxBoards
    /\ boards' = Append(boards,
                   [userId |-> caller, boardType |-> bt, weightKg |-> Null,
                    pricePerKg |-> Null, totalPrice |-> Null, lotId |-> NoLot,
                    creator |-> caller, createdAt |-> now])
    /\ last' = [NoOp EXCEPT !.op = "scan", !.status = 200, !.caller = caller,
                            !.board = Len(boards) + 1]
    /\ UNCHANGED <<lots, svars, jobs, avars, now>>

\* storage.updateScannedBoard : set the supplied columns, and totalPrice only
\* when both weightKg and pricePerKg are keys of the update
updateScannedBoard(b, updates) ==
    LET r == boards[b]
        r1 == IF updates.weightKg # Absent
                THEN [r EXCEPT !.weightKg = updates.weightKg] ELSE r
        r2 == IF updates.pricePerKg # Absent
                THEN [r1 EXCEPT !.pricePerKg = updates.pricePerKg] ELSE r1
        r3 == IF updates.lotId # Absent
                THEN [r2 EXCEPT !.lotId = updates.lotId] ELSE r2
        r4 == IF updates.weightKg # Absent /\ updates.pricePerKg # Absent
                THEN [r3 EXCEPT !.totalPrice =
                         ProductOf(updates.weightKg, updates.pricePerKg)]
                ELSE r3
        r5 == IF updates.userId # Unset
                THEN [r4 EXCEPT !.userId = updates.userId] ELSE r4
    IN  [boards EXCEPT ![b] = r5]

\* bodies of PATCH requests: any of the keys may be missing; userId is a key
\* of updateScannedBoardSchema and names an existing user
Updates == [weightKg : Weights \cup {Null, Absent},
            pricePerKg : Prices \cup {Null, Absent},
            lotId : (0..MaxLots) \cup {Absent},
            userId : Users \cup {Unset}]

\* bodies that set weight and price only
PriceUpdates == {u \in Updates : u.lotId = Absent /\ u.userId = Unset}

\* the bodies sent while access is exercised: weight and price, or a userId
AccessUpdates ==
    {u \in Updates :
        /\ u.lotId = Absent
        /\ \/ u.weightKg = 15 /\ u.pricePerKg = 200 /\ u.userId = Unset
           \/ u.weightKg = Absent /\ u.pricePerKg = Absent /\ u.userId # Unset}

\* the bodies sent while lots are being filled: both keys, or the weight alone
LotUpdates == {u \in PriceUpdates :
                 \/ u.weightKg = 15 /\ u.pricePerKg = 200
                 \/ u.weightKg = 20 /\ u.pricePerKg \in {300, Absent}}

\* PATCH /api/scanned-boards/:id
UpdateBoard(caller, b, updates) ==
    LET status ==
          IF b \notin 1..Len(boards) THEN 404
          ELSE IF Role(caller) # "admin" /\ boards[b].userId # caller THEN 403
          \* lot_id references lots.id: the statement fails on a dangling id
          ELSE IF updates.lotId \notin {Absent, NoLot} /\ ~LotExists(updates.lotId)
                 THEN 500
          \* .set({}) has no values to set and throws
          ELSE IF updates.weightKg = Absent /\ updates.pricePerKg = Absent
                    /\ updates.lotId = Absent /\ updates.userId = Unset
                 THEN 500
          ELSE 200
    IN  /\ Count
        /\ boards' = IF status = 200 THEN updateScannedBoard(b, updates)
                     ELSE boards
        /\ last' = [NoOp EXCEPT !.op = "update", !.caller = caller,
                                !.status = status, !.board = b]
        /\ UNCHANGED <<lots, svars, jobs, avars, now>>

\* bodies that hand a record to a user
OwnerUpdates ==
    {u \in Updates : u.weightKg = Absent /\ u.pricePerKg = Absent
                       /\ u.lotId = Absent /\ u.userId # Unset}

\* what the chat completion can come back with: a JSON object naming a
\* board type, an empty content, or an error of the call or of JSON.parse
Replies == StatTypes \cup {"empty", "error"}

\* the same call with the error swallowed and the fallback values returned
analyzeElectronicBoardSwallowing(reply) ==
    [threw |-> FALSE,
     boardType |-> IF reply \in StatTypes THEN reply ELSE "Unknown Board"]

\* aiVision.analyzeElectronicBoard : result.boardType || "Unknown Board",
\* and every error is thrown again
analyzeElectronicBoard(reply) ==
    [threw |-> reply = "error",
     boardType |-> IF reply \in StatTypes THEN reply ELSE "Unknown Board"]

\* POST /api/scan with the vision call: the analysis is awaited before
\* createScannedBoard, and an error of either is answered 500
ScanWith(caller, reply) ==
    LET analysis == analyzeElectronicBoard(reply) IN
    /\ Count
    /\ Len(boards) < MaxBoards
    /\ boards' = IF analysis.threw THEN boards
                 ELSE Append(boards,
                        [userId |-> caller, boardType |-> analysis.boardType,
                         weightKg |-> Null, pricePerKg |-> Null,
                         totalPrice |-> Null, lotId |-> NoLot,
                         creator |-> caller, createdAt |-> now])
    /\ last' = [NoOp EXCEPT !.op = "scan", !.caller = caller,
                            !.status = IF analysis.threw THEN 500 ELSE 200,
                            !.board = IF analysis.threw THEN 0
                                      ELSE Len(boards) + 1,
                            !.vision = IF reply = "error" THEN "failed"
                                       ELSE "answered"]
    /\ UNCHANGED <<lots, svars, jobs, avars, now>>

\* the boardType values of the query string; an empty one is no filter
TypeFilters == {"power", "%", Unset}

\* like(boardType, `%${x}%`) : x occurs in the board type, and % in x
\* matches any run of characters
Like(t, x) ==
    \/ x = t
    \/ x = "%"
    \/ x = "power" /\ t = "powerboard"

\* the instants startDate and endDate of the query string name
StartDates == {700}
EndDates == {0}

\* the filters GET /api/scanned-boards builds from the query string: limit
\* and offset are always present, userId is no key of the query
ListFilters == [boardType : TypeFilters, startDate : StartDates \cup {Absent},
                endDate : EndDates \cup {Absent}, limit : {1, 20},
                offset : {0, 1}]

\* the same query with the conditions joined by or
getScannedBoardsMatchingAny(userId, f) ==
    {b \in 1..Len(boards) :
        \/ userId # Unset /\ boards[b].userId = userId
        \/ f.boardType # Unset /\ Like(boards[b].boardType, f.boardType)
        \/ f.startDate # Absent /\ boards[b].createdAt >= f.startDate
        \/ f.endDate # Absent /\ boards[b].createdAt <= f.endDate}

\* the rows storage.getScannedBoards selects: every condition present holds
getScannedBoards(userId, f) ==
    {b \in 1..Len(boards) :
        /\ userId # Unset => boards[b].userId = userId
        /\ f.boardType # Unset => Like(boards[b].boardType, f.boardType)
        /\ f.startDate # Absent => boards[b].createdAt >= f.startDate
        /\ f.endDate # Absent => boards[b].createdAt <= f.endDate}

\* orderBy(desc(createdAt)): the orders of the selected rows with createdAt
\* not increasing; the order of rows with equal createdAt is not determined
OrdersByCreatedAtDesc(S) ==
    LET n == Cardinality(S) IN
    {q \in [1..n -> S] :
        /\ \A i, j \in 1..n : i # j => q[i] # q[j]
        /\ \A i, j \in 1..n : i < j => boards[q[i]].createdAt >= boards[q[j]].createdAt}

\* .limit(limit).offset(offset)
Page(q, limit, offset) ==
    LET hi == IF offset + limit < Len(q) THEN offset + limit ELSE Len(q)
    IN  SubSeq(q, offset + 1, hi)

\* GET /api/scanned-boards : a caller whose session role is not admin gets
\* the userId filter set to their own id
ListBoards(caller, f) ==
    IF ~requireAuth(caller)
      THEN /\ last' = [NoOp EXCEPT !.op = "list", !.caller = caller,
                                   !.status = 401]
           /\ UNCHANGED <<boards, lots, ops, svars, jobs, avars, now>>
      ELSE LET userId == IF logins[caller].role # "admin" THEN caller
                         ELSE Unset
           IN  \E q \in OrdersByCreatedAtDesc(getScannedBoards(userId, f)) :
                 /\ last' = [NoOp EXCEPT !.op = "list", !.caller = caller,
                                         !.status = 200, !.name = f.boardType,
                                         !.rows = Page(q, f.limit, f.offset)]
                 /\ UNCHANGED <<boards, lots, ops, svars, jobs, avars, now>>

----------------------------------------------------------------------------
(* Lots *)

\* the same rollups obtained by adding the members to the stored values
updateLotTotalsIncremental(bs, ls, lotId) ==
    LET members == {b \in 1..Len(bs) : bs[b].lotId = lotId}
        totalWeight == SumOver([b \in members |-> NumberOrZero(bs[b].weightKg)],
                               members)
        totalValue == SumOver([b \in members |-> NumberOrZero(bs[b].totalPrice)],
                              members)
        itemCount == Cardinality(members)
    IN  IF lotId \in 1..Len(ls)
          THEN [ls EXCEPT ![lotId].totalWeight = @ + totalWeight,
                          ![lotId].totalValue = @ + totalValue,
                          ![lotId].itemCount = @ + itemCount]
          ELSE ls

\* storage.updateLotTotals : recompute the three rollups from the members
updateLotTotals(bs, ls, lotId) ==
    LET members == {b \in 1..Len(bs) : bs[b].lotId = lotId}
        totalWeight == SumOver([b \in members |-> NumberOrZero(bs[b].weightKg)],
                               members)
        totalValue == SumOver([b \in members |-> NumberOrZero(bs[b].totalPrice)],
                              members)
        itemCount == Cardinality(members)
    IN  IF lotId \in 1..Len(ls)
          THEN [ls EXCEPT ![lotId].totalWeight = totalWeight,
                          ![lotId].totalValue = totalValue,
                          ![lotId].itemCount = itemCount]
          ELSE ls

\* the rows matched by  where(eq(scannedBoards.id, boardIds[0]))
FirstIdRows(ids) ==
    IF Len(ids) = 0 THEN {} ELSE {b \in 1..Len(boards) : b = ids[1]}

\* UPDATE scanned_boards SET lot_id = v on the matched rows
SetLotId(rows, v) ==
    [b \in 1..Len(boards) |->
        IF b \in rows THEN [boards[b] EXCEPT !.lotId = v] ELSE boards[b]]

\* POST /api/lots : admin only, lots.name is unique; insertLotSchema keeps
\* the status key of the body, and a closedAt other than null does not parse
CreateLot(caller, name, st) ==
    LET status ==
          IF Role(caller) # "admin" THEN 403
          ELSE IF \E l \in 1..Len(lots) : lots[l].name = name THEN 500
          ELSE 200
    IN  /\ Count
        /\ Len(lots) < MaxLots
        /\ lots' = IF status = 200
                     THEN Append(lots, [name |-> name, status |-> st,
                                        totalWeight |-> 0, totalValue |-> 0,
                                        itemCount |-> 0, closedAt |-> Null])
                     ELSE lots
        /\ last' = [NoOp EXCEPT !.op = "createLot", !.caller = caller,
                                !.status = status, !.name = name,
                                !.lot = IF status = 200 THEN Len(lots) + 1 ELSE 0]
        /\ UNCHANGED <<boards, svars, jobs, avars, now>>

\* POST /api/lots/:id/close and storage.closeLot
CloseLot(caller, lotId) ==
    LET status ==
          IF Role(caller) # "admin" THEN 403
          ELSE IF ~LotExists(lotId) THEN 404
          ELSE 200
    IN  /\ Count
        /\ lots' = IF status = 200
                     THEN [lots EXCEPT ![lotId].status = "closed",
                                       ![lotId].closedAt = now]
                     ELSE lots
        /\ last' = [NoOp EXCEPT !.op = "closeLot", !.caller = caller,
                                !.status = status, !.lot = lotId]
        /\ UNCHANGED <<boards, svars, jobs, avars, now>>

\* POST /api/lots/:id/add-boards and storage.addBoardsToLot
AddBoards(caller, lotId, ids) ==
    LET rows == FirstIdRows(ids)
        status ==
          IF Role(caller) # "admin" THEN 403
          \* lot_id references lots.id: a matched row and a dangling id throw
          ELSE IF rows # {} /\ ~LotExists(lotId) THEN 500
          ELSE 200
        bs == SetLotId(rows, lotId)
    IN  /\ Count
        /\ boards' = IF status = 200 THEN bs ELSE boards
        /\ lots' = IF status = 200 THEN updateLotTotals(bs, lots, lotId) ELSE lots
        /\ last' = [NoOp EXCEPT !.op = "addBoards", !.caller = caller,
                                !.status = status, !.lot = lotId, !.ids = ids,
                                !.lost = IF status = 200
                                           THEN LotsOf(rows) \ {lotId} ELSE {}]
        /\ UNCHANGED <<svars, jobs, avars, now>>

\* storage.removeBoardsFromLot
RemoveBoards(ids) ==
    /\ Count
    /\ boards' = SetLotId(FirstIdRows(ids), NoLot)
    /\ last' = [NoOp EXCEPT !.op = "removeBoards", !.status = 200, !.ids = ids,
                            !.lost = LotsOf(FirstIdRows(ids))]
    /\ UNCHANGED <<lots, svars, jobs, avars, now>>

\* storage.updateLotTotals called on its own, with no other request running
RecomputeTotals(lotId) ==
    /\ Count
    /\ lots' = updateLotTotals(boards, lots, lotId)
    /\ last' = [NoOp EXCEPT !.op = "recompute", !.status = 200, !.lot = lotId,
                            !.run = IF last.op = "recompute" /\ last.lot = lotId
                                      THEN 2 ELSE 1]
    /\ UNCHANGED <<boards, svars, jobs, avars, now>>

----------------------------------------------------------------------------
(* Concurrent calls of addBoardsToLot and updateLotTotals.  A call occupies *)
(* a slot of jobs; the statements of two calls interleave at their awaits.  *)

\* rows are the rows a call selected and still holds, seen their number once
\* the call has returned
IdleJob == [kind |-> "idle", pc |-> "idle", lot |-> 0, status |-> 0,
            rows |-> <<>>, seen |-> 0, stale |-> FALSE]

\* a new call takes the first slot that is not in flight
FreeJob(j) ==
    /\ jobs[j].pc \in {"idle", "done"}
    /\ \A k \in 1..(j - 1) : jobs[k].pc \notin {"idle", "done"}

\* select weightKg, totalPrice from scanned_boards where lot_id = lotId
selectLotBoards(bs, lotId) ==
    [b \in {c \in 1..Len(bs) : bs[c].lotId = lotId} |->
        [weightKg |-> bs[b].weightKg, totalPrice |-> bs[b].totalPrice]]

\* the same statement adding the rollups of the rows to the stored values
writeLotTotalsAdding(ls, lotId, rows) ==
    LET ids == DOMAIN rows IN
    IF lotId \in 1..Len(ls)
      THEN [ls EXCEPT
              ![lotId].totalWeight =
                  @ + SumOver([b \in ids |-> NumberOrZero(rows[b].weightKg)], ids),
              ![lotId].totalValue =
                  @ + SumOver([b \in ids |-> NumberOrZero(rows[b].totalPrice)], ids),
              ![lotId].itemCount = @ + Cardinality(ids)]
      ELSE ls

\* the reduce calls of updateLotTotals over the selected rows and its
\* update lots set totalWeight, totalValue, itemCount where id = lotId
writeLotTotals(ls, lotId, rows) ==
    LET ids == DOMAIN rows IN
    IF lotId \in 1..Len(ls)
      THEN [ls EXCEPT
              ![lotId].totalWeight =
                  SumOver([b \in ids |-> NumberOrZero(rows[b].weightKg)], ids),
              ![lotId].totalValue =
                  SumOver([b \in ids |-> NumberOrZero(rows[b].totalPrice)], ids),
              ![lotId].itemCount = Cardinality(ids)]
      ELSE ls

\* POST /api/lots/:id/add-boards up to the UPDATE of scanned_boards
AddReassign(j, caller, lotId, ids) ==
    LET rows == FirstIdRows(ids)
        status ==
          IF Role(caller) # "admin" THEN 403
          ELSE IF rows # {} /\ ~LotExists(lotId) THEN 500
          ELSE 0
    IN  /\ FreeJob(j)
        /\ boards' = IF status = 0 THEN SetLotId(rows, lotId) ELSE boards
        /\ jobs' = [jobs EXCEPT ![j] =
              [IdleJob EXCEPT !.kind = "add", !.lot = lotId, !.status = status,
                              !.pc = IF status = 0 THEN "read" ELSE "done"]]
        /\ UNCHANGED <<lots, last, ops, svars, avars, now>>

\* the SELECT of updateLotTotals, run by addBoardsToLot
TotalsRead(j) ==
    /\ jobs[j].pc = "read"
    /\ jobs' = [jobs EXCEPT ![j].pc = "write",
                            ![j].rows = selectLotBoards(boards, jobs[j].lot)]
    /\ UNCHANGED <<boards, lots, last, ops, svars, avars, now>>

\* storage.updateLotTotals called on its own, up to the answer of its SELECT;
\* stale tells that the call began when every slot held a finished
\* addBoardsToLot of the lot and the stored itemCount was not the number of
\* its members
RecomputeRead(j, lotId) ==
    /\ FreeJob(j)
    /\ jobs' = [jobs EXCEPT ![j] =
          [IdleJob EXCEPT !.kind = "recompute", !.lot = lotId, !.pc = "write",
                          !.rows = selectLotBoards(boards, lotId),
                          !.stale =
                             /\ LotExists(lotId)
                             /\ lots[lotId].itemCount # Cardinality(Members(lotId))
                             /\ \A k \in 1..MaxJobs :
                                   /\ jobs[k].kind = "add" /\ jobs[k].pc = "done"
                                   /\ jobs[k].status = 200
                                   /\ jobs[k].lot = lotId]]
    /\ UNCHANGED <<boards, lots, last, ops, svars, avars, now>>

\* the UPDATE of updateLotTotals from the rows the call selected
TotalsWrite(j) ==
    /\ jobs[j].pc = "write"
    /\ lots' = writeLotTotals(lots, jobs[j].lot, jobs[j].rows)
    /\ jobs' = [jobs EXCEPT ![j].pc = "done", ![j].status = 200,
                            ![j].rows = <<>>,
                            ![j].seen = Cardinality(DOMAIN jobs[j].rows)]
    /\ UNCHANGED <<boards, last, ops, svars, avars, now>>

\* storage.getLotStats
getLotStats(lotId) ==
    LET members == Members(lotId)
    IN  [totalBoards |-> Cardinality(members),
         totalWeight |-> SumOver([b \in members |->
                                     NumberOrZero(boards[b].weightKg)], members),
         totalValue |-> SumOver([b \in members |->
                                     NumberOrZero(boards[b].totalPrice)], members)]

\* the orders in which  select from scanned_boards where lot_id = lotId,
\* which has no ORDER BY, can return the members
RowOrders(lotId) ==
    LET members == Members(lotId)
        n == Cardinality(members)
    IN  {q \in [1..n -> members] : \A i, j \in 1..n : i # j => q[i] # q[j]}

\* boardTypeCounts filled by forEach over the rows, then Object.entries:
\* one entry per board type, in the order of the first row of each type
RECURSIVE BoardsByType(_)
BoardsByType(types) ==
    IF types = <<>> THEN <<>>
    ELSE LET front == BoardsByType(SubSeq(types, 1, Len(types) - 1))
             t == types[Len(types)]
         IN  IF \E i \in 1..Len(front) : front[i].boardType = t
               THEN [i \in 1..Len(front) |->
                       IF front[i].boardType = t
                         THEN [front[i] EXCEPT !.count = @ + 1]
                         ELSE front[i]]
               ELSE Append(front, [boardType |-> t, count |-> 1])

\* GET /api/lots/:id : the lot with the statistics of storage.getLotStats
GetLotStats(caller, lotId) ==
    \E order \in RowOrders(lotId) :
        /\ last' = [NoOp EXCEPT
                      !.op = "stats", !.caller = caller, !.lot = lotId,
                      !.status = IF LotExists(lotId) THEN 200 ELSE 404,
                      !.byType =
                          IF LotExists(lotId)
                            THEN BoardsByType([i \in 1..Len(order) |->
                                                 boards[order[i]].boardType])
                            ELSE <<>>]
        /\ UNCHANGED <<boards, lots, ops, svars, jobs, avars, now>>

----------------------------------------------------------------------------
(* Activity sessions.  A request occupies a slot of reqs from its first      *)
(* database statement to its response; the handlers of two slots interleave *)
(* at their awaits.                                                         *)

IdleReq == [kind |-> "idle", pc |-> "idle", user |-> "none", sid |-> NoSession,
            endTime |-> Null, startedAt |-> Null, status |-> 0,
            ret |-> NoSession, prev |-> NoSession, seen |-> {},
            wasEnded |-> FALSE]

\* a new request takes the first slot that is not in flight
Free(r) ==
    /\ reqs[r].pc \in {"idle", "done"}
    /\ \A q \in 1..(r - 1) : reqs[q].pc \notin {"idle", "done"}

\* the session ids a client can send: those of existing rows, and one that
\* names no row
UnknownSession == MaxSessions + 1
SessionIds == (1..Len(sessions)) \cup {UnknownSession}

\* new Date().toISOString().split('T')[0]
DateOf(t) == t \div MsPerDay

\* the same lookup without the isNull(endedAt) condition
getUserActiveSessionsOfAnyState(u) ==
    {s \in 1..Len(sessions) : sessions[s].userId = u}

\* the same lookup without the eq(userId) condition
getUserActiveSessionsOfAnyUser(u) ==
    {s \in 1..Len(sessions) : sessions[s].endedAt = Null}

\* storage.getUserActiveSessions : the open sessions of the user
getUserActiveSessions(u) ==
    {s \in 1..Len(sessions) :
        sessions[s].userId = u /\ sessions[s].endedAt = Null}

\* activeSessions[0] under orderBy(desc(startedAt)): a row with the latest
\* startedAt; the order of rows with equal startedAt is not determined
FirstByStartedAtDesc(S) ==
    {s \in S : \A t \in S : sessions[t].startedAt <= sessions[s].startedAt}

\* POST /api/activity/start up to the answer of getUserActiveSessions
StartLookup(r, u) ==
    LET activeSessions == getUserActiveSessions(u) IN
    /\ Count
    /\ Free(r)
    /\ IF activeSessions # {}
         THEN \E s \in FirstByStartedAtDesc(activeSessions) :
                /\ reqs' = [reqs EXCEPT ![r] =
                      [IdleReq EXCEPT !.kind = "start", !.pc = "done",
                                      !.user = u, !.status = 200, !.ret = s,
                                      !.sid = s, !.prev = lastStart[u],
                                      !.seen = activeSessions]]
                /\ lastStart' = [lastStart EXCEPT ![u] = s]
         ELSE /\ reqs' = [reqs EXCEPT ![r] =
                      [IdleReq EXCEPT !.kind = "start", !.pc = "insert",
                                      !.user = u, !.prev = lastStart[u]]]
              /\ UNCHANGED lastStart
    /\ UNCHANGED <<sessions, boards, lots, last, jobs, avars, now>>

\* storage.createUserSession : the row inserted by a start request
createUserSession(u, t) ==
    Append(sessions, [userId |-> u, startedAt |-> t, lastActiveAt |-> t,
                      endedAt |-> Null, durationSeconds |-> Null,
                      activityDate |-> DateOf(t)])

\* POST /api/activity/start from the parse of the new row to the response
StartInsert(r) ==
    /\ Count
    /\ reqs[r].kind = "start" /\ reqs[r].pc = "insert"
    /\ Len(sessions) < MaxSessions
    /\ sessions' = createUserSession(reqs[r].user, now)
    /\ reqs' = [reqs EXCEPT ![r].pc = "done", ![r].status = 200,
                            ![r].ret = Len(sessions) + 1,
                            ![r].sid = Len(sessions) + 1]
    /\ lastStart' = [lastStart EXCEPT ![reqs[r].user] = Len(sessions) + 1]
    /\ UNCHANGED <<boards, lots, last, jobs, avars, now>>

\* the same statement with endedAt and durationSeconds cleared as well
updateUserSessionReopening(sid, t) ==
    IF sid \in 1..Len(sessions)
      THEN [sessions EXCEPT ![sid].lastActiveAt = t, ![sid].endedAt = Null,
                            ![sid].durationSeconds = Null]
      ELSE sessions

\* storage.updateUserSession with { lastActiveAt }
updateUserSession(sid, t) ==
    IF sid \in 1..Len(sessions)
      THEN [sessions EXCEPT ![sid].lastActiveAt = t]
      ELSE sessions

\* POST /api/activity/ping
Ping(r, u, sid) ==
    /\ Count
    /\ Free(r)
    /\ sessions' = updateUserSession(sid, now)
    /\ reqs' = [reqs EXCEPT ![r] =
          [IdleReq EXCEPT !.kind = "ping", !.pc = "done", !.user = u,
                          !.sid = sid, !.status = 200,
                          !.ret = IF sid \in 1..Len(sessions) THEN sid
                                  ELSE NoSession,
                          !.wasEnded = sid \in 1..Len(sessions)
                                         /\ sessions[sid].endedAt # Null]]
    /\ UNCHANGED <<lastStart, boards, lots, last, jobs, avars, now>>

\* POST /api/activity/end up to the answer of getUserActiveSessions:
\* endTime is taken first, the session is looked up among the caller's open ones
EndLookup(r, u, sid) ==
    LET found == sid \in getUserActiveSessions(u)
        wasEnded == sid \in 1..Len(sessions) /\ sessions[sid].endedAt # Null
    IN  /\ Count
        /\ Free(r)
        /\ reqs' = [reqs EXCEPT ![r] =
              IF found
                THEN [IdleReq EXCEPT !.kind = "end", !.pc = "write", !.user = u,
                                     !.sid = sid, !.endTime = now,
                                     !.startedAt = sessions[sid].startedAt,
                                     !.wasEnded = wasEnded]
                ELSE [IdleReq EXCEPT !.kind = "end", !.pc = "done", !.user = u,
                                     !.sid = sid, !.endTime = now,
                                     !.status = 404, !.wasEnded = wasEnded]]
        /\ lastStart' = IF found THEN lastStart
                        ELSE [lastStart EXCEPT ![u] = NoSession]
        /\ UNCHANGED <<sessions, boards, lots, last, jobs, avars, now>>

\* the same difference rounded to the nearest second
DurationSecondsRounded(endTime, startTime) ==
    (endTime - startTime + 500) \div MsPerSecond

\* Math.floor((endTime.getTime() - startTime.getTime()) / 1000)
DurationSeconds(endTime, startTime) == (endTime - startTime) \div MsPerSecond

\* storage.endUserSession
endUserSession(sid, endedAt, duration) ==
    [sessions EXCEPT ![sid].endedAt = endedAt,
                     ![sid].durationSeconds = duration]

\* POST /api/activity/end from the computation of the duration to the response
EndWrite(r) ==
    /\ Count
    /\ reqs[r].kind = "end" /\ reqs[r].pc = "write"
    /\ sessions' = endUserSession(reqs[r].sid, reqs[r].endTime,
                       DurationSeconds(reqs[r].endTime, reqs[r].startedAt))
    /\ reqs' = [reqs EXCEPT ![r].pc = "done", ![r].status = 200]
    /\ lastStart' = [lastStart EXCEPT ![reqs[r].user] = NoSession]
    /\ UNCHANGED <<boards, lots, last, jobs, avars, now>>

\* Math.round(a / b) for a >= 0 and b > 0
RoundDiv(a, b) == (2 * a + b) \div (2 * b)

\* the query strings of GET /api/activity/stats: a user or none, and
\* instants for startDate and endDate or none
ActivityInstants == {700, MsPerDay}
ActivityQueries == [userId : Users \cup {Unset},
                    startDate : ActivityInstants \cup {Absent},
                    endDate : ActivityInstants \cup {Absent}]

\* the rows the query of getUserActivityStats selects; a Date becomes the
\* day of toISOString().split('T')[0]
SelectedSessions(q) ==
    {s \in 1..Len(sessions) :
        /\ q.userId # Unset => sessions[s].userId = q.userId
        /\ q.startDate # Absent => sessions[s].activityDate >= DateOf(q.startDate)
        /\ q.endDate # Absent => sessions[s].activityDate <= DateOf(q.endDate)}

\* the same report with the active days counted over completed sessions
getUserActivityStatsOverCompleted(q) ==
    LET completed == {s \in SelectedSessions(q) :
                         sessions[s].durationSeconds # Null}
        totalSeconds == SumOver([s \in completed |->
                                    sessions[s].durationSeconds], completed)
        n == Cardinality(completed)
    IN  [totalSessions |-> n,
         totalTimeMinutes |-> RoundDiv(totalSeconds, 60),
         averageSessionMinutes |-> IF n > 0 THEN RoundDiv(totalSeconds, 60 * n)
                                   ELSE 0,
         activeDays |-> Cardinality({sessions[s].activityDate : s \in completed})]

\* storage.getUserActivityStats
getUserActivityStats(q) ==
    LET selected == SelectedSessions(q)
        completedSessions == {s \in selected : sessions[s].durationSeconds # Null}
        totalSeconds == SumOver([s \in completedSessions |->
                                    sessions[s].durationSeconds],
                                completedSessions)
        n == Cardinality(completedSessions)
        uniqueDates == {sessions[s].activityDate : s \in selected}
    IN  [totalSessions |-> n,
         totalTimeMinutes |-> RoundDiv(totalSeconds, 60),
         averageSessionMinutes |-> IF n > 0 THEN RoundDiv(totalSeconds, 60 * n)
                                   ELSE 0,
         activeDays |-> Cardinality(uniqueDates)]

\* GET /api/activity/stats : administrators only
ActivityStats(caller, q) ==
    /\ last' = IF Role(caller) # "admin"
                 THEN [NoOp EXCEPT !.op = "activityStats", !.caller = caller,
                                   !.status = 403]
                 ELSE [NoOp EXCEPT !.op = "activityStats", !.caller = caller,
                                   !.status = 200, !.query = q,
                                   !.stats = getUserActivityStats(q)]
    /\ UNCHANGED <<boards, lots, ops, svars, jobs, avars, now>>

\* the clock read by new Date() advances between statements
Tick(d) ==
    /\ Count
    /\ now' = now + d
    /\ UNCHANGED <<boards, lots, last, svars, jobs, avars>>

Init ==
    /\ boards = <<>>
    /\ lots = <<>>
    /\ last = NoOp
    /\ ops = 0
    /\ sessions = <<>>
    /\ reqs = [r \in 1..MaxReqs |-> IdleReq]
    /\ lastStart = [u \in Users |-> NoSession]
    /\ jobs = [j \in 1..MaxJobs |-> IdleJob]
    /\ accounts = [u \in Users |-> [role |-> Role(u), isActive |-> TRUE]]
    /\ logins = [u \in Users |-> NoLogin]
    /\ now = 0

\* the administrators, who alone may manage lots
Admins == {u \in Users : Role(u) = "admin"}

\* lots and their scan records, as managed by an administrator
Next ==
    \/ \E c \in Admins, bt \in BoardTypes : Scan(c, bt)
    \/ \E c \in Admins, b \in BoardIds, u \in LotUpdates : UpdateBoard(c, b, u)
    \/ \E c \in Admins, n \in LotNames, st \in LotStatuses : CreateLot(c, n, st)
    \/ \E c \in Admins, l \in LotIds : CloseLot(c, l)
    \/ \E c \in Admins, l \in LotIds, ids \in BoardIdSeqs : AddBoards(c, l, ids)
    \/ \E ids \in BoardIdSeqs : RemoveBoards(ids)

Spec == Init /\ [][Next]_vars

\* scan records alone: every body of PATCH that sets weight and price
NextPricing ==
    \/ \E c \in Users, bt \in BoardTypes : Scan(c, bt)
    \/ \E c \in Users, b \in BoardIds, u \in PriceUpdates :
          UpdateBoard(c, b, u)

SpecPricing == Init /\ [][NextPricing]_vars

\* lots and their scan records with recomputations of the rollups
NextTotals ==
    \/ \E c \in Admins, bt \in BoardTypes : Scan(c, bt)
    \/ \E c \in Admins, b \in BoardIds, u \in LotUpdates : UpdateBoard(c, b, u)
    \/ \E c \in Admins, n \in LotNames : CreateLot(c, n, "open")
    \/ \E c \in Admins, l \in LotIds, ids \in BoardIdSeqs : AddBoards(c, l, ids)
    \/ \E ids \in BoardIdSeqs : RemoveBoards(ids)
    \/ \E l \in LotIds : RecomputeTotals(l)

SpecTotals == Init /\ [][NextTotals]_vars

\* scan records as POST /api/scan and a PATCH of weight and price leave
\* them: weighed and priced, with the product as totalPrice
WeighedRows ==
    {[userId |-> "admin", boardType |-> bt, weightKg |-> w,
      pricePerKg |-> 200, totalPrice |-> ProductOf(w, 200), lotId |-> NoLot,
      creator |-> "admin", createdAt |-> 0] : bt \in BoardTypes, w \in {15}}

\* MaxBoards scan records outside every lot, and one new open lot
InitInterleaved ==
    /\ boards \in [1..MaxBoards -> WeighedRows]
    /\ lots = <<[name |-> "L1", status |-> "open", totalWeight |-> 0,
                 totalValue |-> 0, itemCount |-> 0, closedAt |-> Null]>>
    /\ last = NoOp
    /\ ops = 0
    /\ sessions = <<>>
    /\ reqs = [r \in 1..MaxReqs |-> IdleReq]
    /\ lastStart = [u \in Users |-> NoSession]
    /\ jobs = [j \in 1..MaxJobs |-> IdleJob]
    /\ accounts = [u \in Users |-> [role |-> Role(u), isActive |-> TRUE]]
    /\ logins = [u \in Users |-> NoLogin]
    /\ now = 0

\* the boardIds arrays of the concurrent calls: one id, or none
SingleIdSeqs == {q \in BoardIdSeqs : Len(q) <= 1}

\* one lot filled by concurrent calls of addBoardsToLot
NextInterleaved ==
    \/ \E j \in 1..MaxJobs, c \in Admins, l \in LotIds, ids \in SingleIdSeqs :
          AddReassign(j, c, l, ids)
    \/ \E j \in 1..MaxJobs : TotalsRead(j)
    \/ \E j \in 1..MaxJobs, l \in LotIds : RecomputeRead(j, l)
    \/ \E j \in 1..MaxJobs : TotalsWrite(j)

SpecInterleaved == InitInterleaved /\ [][NextInterleaved]_vars

\* scan records as POST /api/scan leaves them, in the lot or in none
StatRows ==
    {[userId |-> "admin", boardType |-> bt, weightKg |-> Null,
      pricePerKg |-> Null, totalPrice |-> Null, lotId |-> l,
      creator |-> "admin", createdAt |-> 0] : bt \in StatTypes, l \in {NoLot, 1}}

\* up to MaxRows scan records and one open lot holding some of them, with the
\* rollups addBoardsToLot has stored
InitStats ==
    /\ boards \in UNION {[1..n -> StatRows] : n \in 0..MaxRows}
    /\ lots = updateLotTotals(boards,
                 <<[name |-> "L1", status |-> "open", totalWeight |-> 0,
                    totalValue |-> 0, itemCount |-> 0, closedAt |-> Null]>>, 1)
    /\ last = NoOp
    /\ ops = 0
    /\ sessions = <<>>
    /\ reqs = [r \in 1..MaxReqs |-> IdleReq]
    /\ lastStart = [u \in Users |-> NoSession]
    /\ jobs = [j \in 1..MaxJobs |-> IdleJob]
    /\ accounts = [u \in Users |-> [role |-> Role(u), isActive |-> TRUE]]
    /\ logins = [u \in Users |-> NoLogin]
    /\ now = 0

\* the statistics of a lot read by any user
NextStats == \E c \in Users, l \in LotIds : GetLotStats(c, l)

SpecStats == InitStats /\ [][NextStats]_vars

\* accounts: logins, profile updates, deactivations and later requests
NextAccounts ==
    \/ \E u \in Users : Login(u)
    \/ \E c \in Users, id \in UserIds, u \in UserUpdates : PutUser(c, id, u)
    \/ \E c \in Users, id \in UserIds : DeactivateUser(c, id)
    \/ \E c \in Users, rt \in UserRoutes : AuthedRequest(c, rt)

SpecAccounts == Init /\ [][NextAccounts]_vars

\* lots and their scan records, with reads of the lot detail
NextDetail ==
    \/ Next
    \/ \E c \in Admins, l \in LotIds : GetLotStats(c, l)

SpecDetail == Init /\ [][NextDetail]_vars

\* scans with their vision calls, and handovers of records
NextScanning ==
    \/ \E c \in Users, reply \in Replies : ScanWith(c, reply)
    \/ \E c \in Users, b \in BoardIds, u \in OwnerUpdates : UpdateBoard(c, b, u)

SpecScanning == Init /\ [][NextScanning]_vars

\* scan records as scans leave them, created at one of two instants
ListedRows ==
    {[userId |-> u, boardType |-> bt, weightKg |-> Null, pricePerKg |-> Null,
      totalPrice |-> Null, lotId |-> NoLot, creator |-> u, createdAt |-> t] :
        u \in Users, bt \in StatTypes, t \in {0, 700}}

\* up to MaxBoards scan records in the order of their creation; u1 is logged
\* in, the administrator is or is not
InitListing ==
    /\ boards \in {q \in UNION {[1..n -> ListedRows] : n \in 0..MaxBoards} :
                     \A i, j \in 1..Len(q) :
                        i < j => q[i].createdAt <= q[j].createdAt}
    /\ lots = <<>>
    /\ last = NoOp
    /\ ops = 0
    /\ sessions = <<>>
    /\ reqs = [r \in 1..MaxReqs |-> IdleReq]
    /\ lastStart = [u \in Users |-> NoSession]
    /\ jobs = [j \in 1..MaxJobs |-> IdleJob]
    /\ accounts = [u \in Users |-> [role |-> Role(u), isActive |-> TRUE]]
    /\ \E L \in {Users, Users \ Admins} :
          logins = [u \in Users |-> IF u \in L THEN accounts[u] ELSE NoLogin]
    /\ now = 700

\* listings of the scan records
NextListing == \E c \in Users, f \in ListFilters : ListBoards(c, f)

SpecListing == InitListing /\ [][NextListing]_vars

\* session rows as start and end requests leave them: started on one of two
\* days, open or ended after 90 seconds
SessionRows ==
    {[userId |-> u, startedAt |-> t, lastActiveAt |-> t,
      endedAt |-> IF open THEN Null ELSE t + 90 * MsPerSecond,
      durationSeconds |-> IF open THEN Null ELSE 90,
      activityDate |-> DateOf(t)] :
        u \in Users, t \in {0, MsPerDay}, open \in BOOLEAN}

\* up to MaxSessions session rows in the order of their start
InitActivity ==
    /\ boards = <<>>
    /\ lots = <<>>
    /\ last = NoOp
    /\ ops = 0
    /\ sessions \in {q \in UNION {[1..n -> SessionRows] : n \in 0..MaxSessions} :
                       \A i, j \in 1..Len(q) :
                          i < j => q[i].startedAt <= q[j].startedAt}
    /\ reqs = [r \in 1..MaxReqs |-> IdleReq]
    /\ lastStart = [u \in Users |-> NoSession]
    /\ jobs = [j \in 1..MaxJobs |-> IdleJob]
    /\ accounts = [u \in Users |-> [role |-> Role(u), isActive |-> TRUE]]
    /\ logins = [u \in Users |-> NoLogin]
    /\ now = MsPerDay + 90 * MsPerSecond

\* activity reports over the session rows
NextActivity == \E c \in Users, q \in ActivityQueries : ActivityStats(c, q)

SpecActivity == InitActivity /\ [][NextActivity]_vars

\* deactivation: logins, deactivations by an administrator, later requests
NextDeactivation ==
    \/ \E u \in Users : Login(u)
    \/ \E c \in Users, id \in UserIds : DeactivateUser(c, id)
    \/ \E c \in Users, rt \in UserRoutes : AuthedRequest(c, rt)

SpecDeactivation == Init /\ [][NextDeactivation]_vars

\* the life of lots under a clock that advances between the requests
NextLifecycle ==
    \/ \E c \in Admins, n \in LotNames, st \in LotStatuses : CreateLot(c, n, st)
    \/ \E c \in Admins, l \in LotIds : CloseLot(c, l)
    \/ \E d \in ClockSteps : Tick(d)

SpecLifecycle == Init /\ [][NextLifecycle]_vars

\* scan records of several users: who may update which record
NextAccess ==
    \/ \E c \in Users, bt \in BoardTypes : Scan(c, bt)
    \/ \E c \in Users, b \in BoardIds, u \in AccessUpdates :
          UpdateBoard(c, b, u)

SpecAccess == Init /\ [][NextAccess]_vars

\* activity sessions: the handlers of MaxReqs concurrent requests
NextSessions ==
    \/ \E r \in 1..MaxReqs, u \in Users : StartLookup(r, u)
    \/ \E r \in 1..MaxReqs : StartInsert(r)
    \/ \E r \in 1..MaxReqs, u \in Users, sid \in SessionIds : Ping(r, u, sid)
    \/ \E r \in 1..MaxReqs, u \in Users, sid \in SessionIds : EndLookup(r, u, sid)
    \/ \E r \in 1..MaxReqs : EndWrite(r)
    \/ \E d \in ClockSteps : Tick(d)

SpecSessions == Init /\ [][NextSessions]_vars

----------------------------------------------------------------------------
(* Claims on lots and scan records *)

Range(q) == {q[i] : i \in 1..Len(q)}

RollupsMatch(l) ==
    /\ lots[l].itemCount = Cardinality(Members(l))
    /\ lots[l].totalWeight = getLotStats(l).totalWeight
    /\ lots[l].totalValue = getLotStats(l).totalValue

\* C1: after any sequence of completed lot and scan-record operations the
\* stored itemCount, totalWeight and totalValue of every lot equal the number
\* of its member records, the sum of their weightKg and the sum of their
\* totalPrice (absent counted as 0).
C1_RollupsEqualMembers == \A l \in 1..Len(lots) : RollupsMatch(l)

\* C2: after addBoards(lotId, boardIds) succeeds on an existing lot, every
\* record listed in boardIds, at any position of the list, has lotId equal
\* to that lot and is a member of no other lot.
C2_AddBoardsMovesEveryListed ==
    (last.op = "addBoards" /\ last.status = 200 /\ LotExists(last.lot)) =>
        \A b \in Range(last.ids) \cap (1..Len(boards)) :
            /\ boards[b].lotId = last.lot
            /\ \A l \in 1..Len(lots) : l # last.lot => b \notin Members(l)

\* C3: after removeBoards(boardIds) completes, every listed record has no
\* lot, and the stored rollups of every lot that lost a member equal the
\* count and sums over its remaining members.
C3_RemoveBoardsClearsAndRecomputes ==
    last.op = "removeBoards" =>
        /\ \A b \in Range(last.ids) \cap (1..Len(boards)) :
              boards[b].lotId = NoLot
        /\ \A l \in last.lost : RollupsMatch(l)

\* C4: for a newly created lot to which N scan records with known weight and
\* price per kg are added by one addBoards call, stats(lot) returns
\* totalBoards = N, totalWeight = the sum of the weights and totalValue = the
\* sum of weight x price over those records.
C4_StatsOfFreshLot ==
    LET ids == Range(last.ids) IN
    ( /\ last.op = "addBoards" /\ last.status = 200 /\ LotExists(last.lot)
      /\ Cardinality(ids) = Len(last.ids)
      /\ ids \subseteq 1..Len(boards)
      /\ \A b \in ids : boards[b].weightKg # Null /\ boards[b].pricePerKg # Null
      /\ Members(last.lot) \subseteq ids )
    => /\ getLotStats(last.lot).totalBoards = Len(last.ids)
       /\ getLotStats(last.lot).totalWeight =
             SumOver([b \in ids |-> boards[b].weightKg], ids)
       /\ getLotStats(last.lot).totalValue =
             SumOver([b \in ids |->
                        ProductOf(boards[b].weightKg, boards[b].pricePerKg)], ids)

\* C5: after any sequence of scan-record create and update operations, every
\* record whose weightKg and pricePerKg are both set has totalPrice equal to
\* weightKg x pricePerKg (stored with two decimals), also when an update
\* supplied only one of the two.
C5_TotalPriceIsProduct ==
    \A b \in 1..Len(boards) :
        (boards[b].weightKg # Null /\ boards[b].pricePerKg # Null) =>
            boards[b].totalPrice =
                ProductOf(boards[b].weightKg, boards[b].pricePerKg)

\* C6: after any sequence of scan-record create and update operations, every
\* record for which weightKg or pricePerKg is absent has totalPrice unset.
C6_TotalPriceUnsetWhenIncomplete ==
    \A b \in 1..Len(boards) :
        (boards[b].weightKg = Null \/ boards[b].pricePerKg = Null) =>
            boards[b].totalPrice = Null

----------------------------------------------------------------------------
(* Claims on activity sessions *)

StartDone(r) == reqs[r].kind = "start" /\ reqs[r].pc = "done"

\* C7: a start call made while a session of the user is open returns that
\* session, creates no session and leaves the sessions unchanged; of two
\* consecutive start calls of one user with no end call in between, the
\* second returns the session id the first returned.
C7_StartIsIdempotent ==
    /\ [](\A r \in 1..MaxReqs : StartDone(r) =>
            /\ reqs[r].seen # {} => reqs[r].ret \in reqs[r].seen
            /\ reqs[r].prev # NoSession => reqs[r].ret = reqs[r].prev)
    /\ [][\A r \in 1..MaxReqs :
            (reqs'[r] # reqs[r] /\ reqs'[r].kind = "start"
               /\ reqs'[r].seen # {}) => sessions' = sessions]_vars

\* C8: in every reachable state each user has at most one open activity
\* session, also when two start requests of the user interleave between the
\* lookup of the open sessions and the insert.
C8_AtMostOneOpenSession ==
    \A u \in Users : Cardinality(getUserActiveSessions(u)) <= 1

\* C9: a successful end on the caller's open session sets endedAt to the time
\* of the call and duration to floor((endedAt - startedAt) / 1000) seconds,
\* from the stored startedAt, whatever pings did to lastActiveAt.
C9_EndSetsFlooredDuration ==
    [][\A r \in 1..MaxReqs :
        /\ (reqs'[r] # reqs[r] /\ reqs'[r].kind = "end")
              => reqs'[r].endTime <= now
        /\ (Free(r) /\ reqs'[r] # reqs[r] /\ reqs'[r].kind = "end")
              => reqs'[r].endTime = now
        /\ (reqs[r].kind = "end" /\ reqs[r].pc = "write"
               /\ reqs'[r].pc = "done") =>
             LET sid == reqs[r].sid
                 elapsed == reqs[r].endTime - sessions[sid].startedAt
             IN  /\ reqs'[r].status = 200
                 /\ sessions'[sid].endedAt = reqs[r].endTime
                 /\ sessions'[sid].startedAt = sessions[sid].startedAt
                 /\ sessions'[sid].durationSeconds * MsPerSecond <= elapsed
                 /\ elapsed < (sessions'[sid].durationSeconds + 1) * MsPerSecond
      ]_vars

\* a session that was pinged after its start has been ended with a duration
\* of a whole second or more
C9_Witness ==
    \E r \in 1..MaxReqs :
        /\ reqs[r].kind = "end" /\ reqs[r].pc = "done" /\ reqs[r].status = 200
        /\ sessions[reqs[r].sid].lastActiveAt > sessions[reqs[r].sid].startedAt
        /\ sessions[reqs[r].sid].durationSeconds >= 1
        /\ sessions[reqs[r].sid].endedAt = reqs[r].endTime

\* C10: once end has completed on a session, every later end call on the
\* same session id fails with NotFound and leaves the sessions unchanged.
C10_SecondEndIsNotFound ==
    /\ [](\A r \in 1..MaxReqs :
            (reqs[r].kind = "end" /\ reqs[r].wasEnded) =>
                reqs[r].pc = "done" /\ reqs[r].status = 404)
    /\ [][\A r \in 1..MaxReqs :
            (reqs'[r] # reqs[r] /\ reqs'[r].kind = "end"
               /\ reqs'[r].wasEnded) => sessions' = sessions]_vars

\* the owner of an ended session has called end on it again
C10_Witness ==
    \E r \in 1..MaxReqs :
        /\ reqs[r].kind = "end" /\ reqs[r].wasEnded
        /\ sessions[reqs[r].sid].userId = reqs[r].user
        /\ sessions[reqs[r].sid].durationSeconds # Null

\* C11: a ping whose sessionId names no existing session reports an error to
\* the caller, not a success result, and creates or changes no session.
C11_PingOfUnknownIsError ==
    /\ [](\A r \in 1..MaxReqs :
            (reqs[r].kind = "ping" /\ reqs[r].pc = "done"
               /\ reqs[r].ret = NoSession) => reqs[r].status # 200)
    /\ [][\A r \in 1..MaxReqs :
            (reqs'[r] # reqs[r] /\ reqs'[r].kind = "ping"
               /\ reqs'[r].ret = NoSession) => sessions' = sessions]_vars

\* C12: a ping on a session that has ended does not reopen it: its endedAt
\* stays set, endedAt and duration keep their values, and no later start or
\* end finds the session among the open ones.
C12_PingKeepsEndedSessionClosed ==
    /\ [][\A r \in 1..MaxReqs :
            (reqs'[r] # reqs[r] /\ reqs'[r].kind = "ping") =>
                \A s \in 1..Len(sessions) :
                    sessions[s].endedAt # Null =>
                        /\ sessions'[s].endedAt = sessions[s].endedAt
                        /\ sessions'[s].durationSeconds =
                              sessions[s].durationSeconds]_vars
    /\ [](\A r \in 1..MaxReqs :
            (reqs[r].kind = "ping" /\ reqs[r].wasEnded) =>
                /\ sessions[reqs[r].sid].endedAt # Null
                /\ \A u \in Users : reqs[r].sid \notin getUserActiveSessions(u))
    /\ [][\A r \in 1..MaxReqs :
            (/\ Free(r) /\ reqs'[r] # reqs[r]
             /\ \/ reqs'[r].kind = "start" /\ reqs'[r].seen # {}
                \/ reqs'[r].kind = "end" /\ reqs'[r].pc = "write")
              => sessions[reqs'[r].sid].endedAt = Null]_vars

\* an ended session has been pinged at a later time than its end
C12_Witness ==
    \E r \in 1..MaxReqs :
        /\ reqs[r].kind = "ping" /\ reqs[r].wasEnded
        /\ sessions[reqs[r].sid].endedAt # Null
        /\ sessions[reqs[r].sid].lastActiveAt > sessions[reqs[r].sid].endedAt

----------------------------------------------------------------------------
(* Claims on the life of lots *)

\* C13: a lot starts in status open, and once its status is closed it is
\* closed after every later create, addBoards and close: no operation returns
\* a lot from closed to open.
C13_ClosedIsTerminal ==
    /\ [][\A l \in 1..Len(lots') :
            l \notin 1..Len(lots) => lots'[l].status = "open"]_vars
    /\ [][\A l \in 1..Len(lots) :
            lots[l].status = "closed" => lots'[l].status = "closed"]_vars

\* C14: closedAt is null while the lot is open, is set by the close call that
\* moves the lot from open to closed, and once set never changes: a close
\* call on an already closed lot does not modify it.
C14_ClosedAtSetOnce ==
    /\ [](\A l \in 1..Len(lots) :
            lots[l].status = "open" => lots[l].closedAt = Null)
    /\ [][\A l \in 1..Len(lots) :
            (lots[l].status = "open" /\ lots'[l].status = "closed") =>
                lots'[l].closedAt = now /\ lots'[l].closedAt # Null]_vars
    /\ [][\A l \in 1..Len(lots) :
            lots[l].closedAt # Null =>
                lots'[l].closedAt = lots[l].closedAt]_vars

\* C15: addBoards(lotId, boardIds) of an administrator with a lotId that
\* names no existing lot fails with NotFound and leaves the lotId of every
\* scan record and the rollups of every lot unchanged.
C15_AddBoardsToUnknownLotIsNotFound ==
    /\ []((last.op = "addBoards" /\ Role(last.caller) = "admin"
             /\ ~LotExists(last.lot)) => last.status = 404)
    /\ [][(ops' # ops /\ last'.op = "addBoards" /\ ~LotExists(last'.lot)) =>
            boards' = boards /\ lots' = lots]_vars

\* C16: no two lots have the same name; create with a name of an existing lot
\* fails with Conflict and leaves the lots unchanged; a successful create
\* yields a lot in status open with totalWeight 0, totalValue 0, itemCount 0
\* and closedAt null.
C16_CreateLotUniqueAndZeroed ==
    /\ [](\A l1, l2 \in 1..Len(lots) :
            l1 # l2 => lots[l1].name # lots[l2].name)
    /\ [][(ops' # ops /\ last'.op = "createLot"
             /\ Role(last'.caller) = "admin"
             /\ \E l \in 1..Len(lots) : lots[l].name = last'.name) =>
            last'.status = 409 /\ lots' = lots]_vars
    /\ [][(ops' # ops /\ last'.op = "createLot" /\ last'.status = 200) =>
            /\ Len(lots') = Len(lots) + 1
            /\ lots'[Len(lots')] =
                 [name |-> last'.name, status |-> "open", totalWeight |-> 0,
                  totalValue |-> 0, itemCount |-> 0, closedAt |-> Null]]_vars

\* C17: recomputeTotals(lotId) is idempotent: run twice in a row on a lot with
\* no change of a membership or a record in between, the second run leaves
\* itemCount, totalWeight and totalValue as the first run left them.
C17_RecomputeIsIdempotent ==
    [][(last.op = "recompute" /\ last'.op = "recompute" /\ ops' # ops
          /\ last'.lot = last.lot /\ boards' = boards) =>
         \A l \in 1..Len(lots) :
            /\ lots'[l].itemCount = lots[l].itemCount
            /\ lots'[l].totalWeight = lots[l].totalWeight
            /\ lots'[l].totalValue = lots[l].totalValue]_vars

\* the rollups of a lot with a weighed and priced member have been
\* recomputed twice in a row
C17_Witness ==
    /\ last.op = "recompute" /\ last.run = 2 /\ LotExists(last.lot)
    /\ lots[last.lot].itemCount >= 1
    /\ lots[last.lot].totalWeight > 0
    /\ lots[last.lot].totalValue > 0

\* C18: when addBoards calls on one lot interleave, the rollups they leave
\* may be stale, but a recomputeTotals on that lot during which no membership
\* and no member record changes sets itemCount, totalWeight and totalValue
\* to the count and sums over the current members, whatever was stored.
C18_RecomputeHealsLostUpdate ==
    [][\A j \in 1..MaxJobs :
        (/\ jobs[j].kind = "recompute" /\ jobs[j].pc = "write"
         /\ jobs'[j].pc = "done" /\ LotExists(jobs[j].lot)
         /\ jobs[j].rows = selectLotBoards(boards, jobs[j].lot))
          => /\ lots'[jobs[j].lot].itemCount =
                   Cardinality(Members(jobs[j].lot))
             /\ lots'[jobs[j].lot].totalWeight =
                   getLotStats(jobs[j].lot).totalWeight
             /\ lots'[jobs[j].lot].totalValue =
                   getLotStats(jobs[j].lot).totalValue
             /\ boards' = boards]_vars

\* interleaved addBoards calls on a lot finished and left an itemCount
\* that was not the number of members; a recompute of the lot, begun after
\* them, has read every member and restored the rollups
C18_Witness ==
    \E j \in 1..MaxJobs :
        /\ jobs[j].kind = "recompute" /\ jobs[j].pc = "done" /\ jobs[j].stale
        /\ jobs[j].seen = Cardinality(Members(jobs[j].lot))
        /\ jobs[j].seen >= 2
        /\ RollupsMatch(jobs[j].lot)
        /\ lots[jobs[j].lot].totalWeight > 0

\* C19: stats(lotId) returns a breakdown by board type whose counts sum to
\* totalBoards, with one entry per distinct board type among the members,
\* ordered by count in descending order.
C19_BreakdownSortedByCount ==
    (last.op = "stats" /\ last.status = 200) =>
        LET bt == last.byType
            types == {boards[b].boardType : b \in Members(last.lot)}
        IN  /\ SumOver([i \in 1..Len(bt) |-> bt[i].count], 1..Len(bt)) =
                  getLotStats(last.lot).totalBoards
            /\ {bt[i].boardType : i \in 1..Len(bt)} = types
            /\ Len(bt) = Cardinality(types)
            /\ \A i \in 1..(Len(bt) - 1) : bt[i].count >= bt[i + 1].count

----------------------------------------------------------------------------
(* Claims on the access to scan records *)

\* C20: an update of a scan record takes effect only when the caller is the
\* record's creator or has role admin; for any other caller it is denied
\* (Forbidden) and the record is left unchanged; an update of a record that
\* does not exist fails with NotFound.
C20_UpdateOnlyByCreatorOrAdmin ==
    /\ []((last.op = "update" /\ last.board \notin 1..Len(boards)) =>
            last.status = 404)
    /\ [][(ops' # ops /\ last'.op = "update"
             /\ last'.board \notin 1..Len(boards)) => boards' = boards]_vars
    /\ [][(ops' # ops /\ last'.op = "update"
             /\ last'.board \in 1..Len(boards)) =>
            LET allowed == \/ Role(last'.caller) = "admin"
                           \/ boards[last'.board].creator = last'.caller
            IN  /\ ~allowed => (last'.status = 403 /\ boards' = boards)
                /\ boards' # boards => allowed]_vars

\* C28: no request of a non-admin user changes the role of any user; a
\* non-admin's update of their own profile never changes a role.
C28_NonAdminNeverChangesRoles ==
    [][(last'.op = "putUser" /\ accounts[last'.caller].role # "admin")
         => \A u \in Users : accounts'[u].role = accounts[u].role]_vars

\* C30: a deactivated user cannot log in, and every request of that user to
\* a route behind requireAuth is rejected, also through a login session
\* established before the deactivation.
C30_DeactivatedUserIsRejected ==
    (/\ last.op \in UserRoutes \cup {"login"}
     /\ ~accounts[last.caller].isActive)
        => last.status = 401

\* a request of the given kind enters slot r in this step
Enters(r, kind) ==
    /\ reqs[r].pc \in {"idle", "done"}
    /\ reqs'[r] # reqs[r]
    /\ reqs'[r].kind = kind

\* C24: of two end requests that both looked up the same open session
\* before either wrote, exactly one succeeds; the other is answered 404 and
\* does not write endedAt or the duration again.
C24_InterleavedEndsWriteOnce ==
    [][\A r \in 1..MaxReqs :
         (/\ reqs[r].kind = "end" /\ reqs[r].pc = "write"
          /\ reqs'[r].pc = "done"
          /\ sessions[reqs[r].sid].endedAt # Null)
            => (reqs'[r].status = 404 /\ sessions' = sessions)]_vars

\* C25: an end request naming a session of another user is answered 404
\* and leaves every session as it was; only the owner's request writes
\* endedAt.
C25_EndOnlyByOwner ==
    [][\A r \in 1..MaxReqs :
         /\ (/\ Enters(r, "end")
             /\ reqs'[r].sid \in 1..Len(sessions)
             /\ sessions[reqs'[r].sid].userId # reqs'[r].user)
               => (/\ reqs'[r].status = 404 /\ reqs'[r].pc = "done"
                   /\ sessions' = sessions)
         /\ (reqs[r].kind = "end" /\ reqs[r].pc = "write"
                /\ reqs'[r].pc = "done")
               => sessions[reqs[r].sid].userId = reqs[r].user]_vars

\* an end request of a user was answered 404 for an open session of
\* another user, and the session is still open
C25_Witness ==
    \E r \in 1..MaxReqs :
        /\ reqs[r].kind = "end" /\ reqs[r].status = 404
        /\ reqs[r].sid \in 1..Len(sessions)
        /\ sessions[reqs[r].sid].userId # reqs[r].user
        /\ sessions[reqs[r].sid].endedAt = Null
        /\ sessions[reqs[r].sid].durationSeconds = Null

\* C26: a ping of one user carrying the id of a session of another user
\* leaves that session, and every other, unchanged.
C26_PingOnlyOwnSession ==
    [][\A r \in 1..MaxReqs :
         (/\ Enters(r, "ping")
          /\ reqs'[r].sid \in 1..Len(sessions)
          /\ sessions[reqs'[r].sid].userId # reqs'[r].user)
            => sessions' = sessions]_vars

\* C27: once a lot has been closed its member scan records and its rollups
\* do not change, and an addBoards call naming it is rejected and changes
\* no record.
C27_ClosedLotIsFrozen ==
    [][\A l \in 1..Len(lots) :
         (lots[l].status = "closed" /\ lots[l].closedAt # Null)
           => /\ {b \in 1..Len(boards') : boards'[b].lotId = l} = Members(l)
              /\ lots'[l].itemCount = lots[l].itemCount
              /\ lots'[l].totalWeight = lots[l].totalWeight
              /\ lots'[l].totalValue = lots[l].totalValue
              /\ (last'.op = "addBoards" /\ last'.lot = l /\ last' # last)
                    => (last'.status \notin {0, 200} /\ boards' = boards)]_vars

\* C29: whenever the lot detail is read, the totalBoards, totalWeight and
\* totalValue of its stats equal the stored itemCount, totalWeight and
\* totalValue of the lot, whatever addBoards, removeBoards and scan-record
\* updates came before.
C29_StatsEqualStoredRollups ==
    (last.op = "stats" /\ last.status = 200)
      => /\ getLotStats(last.lot).totalBoards = lots[last.lot].itemCount
         /\ getLotStats(last.lot).totalWeight = lots[last.lot].totalWeight
         /\ getLotStats(last.lot).totalValue = lots[last.lot].totalValue

\* C21: whatever query filters are supplied, the listing answered to a
\* caller who is not an administrator holds only records whose userId is
\* the caller.
C21_ListingOnlyOwnRecords ==
    (last.op = "list" /\ last.status = 200
       /\ logins[last.caller].role # "admin")
      => \A i \in 1..Len(last.rows) : boards[last.rows[i]].userId = last.caller

\* a non-admin listed with a boardType filter, got a record, and a record of
\* another user matching the filter was left out
C21_Witness ==
    /\ last.op = "list" /\ last.status = 200
    /\ logins[last.caller].role # "admin"
    /\ last.name # Unset
    /\ Len(last.rows) >= 1
    /\ \E b \in 1..Len(boards) :
          /\ boards[b].userId # last.caller
          /\ Like(boards[b].boardType, last.name)

\* C23: when the vision call of a scan fails, the request is answered with
\* an error and the scan records are exactly those before the request.
C23_FailedScanPersistsNothing ==
    [][(last'.op = "scan" /\ last'.vision = "failed")
         => (last'.status = 500 /\ boards' = boards)]_vars

\* a scan failed in its vision call while records of earlier scans exist
C23_Witness ==
    /\ last.op = "scan" /\ last.vision = "failed" /\ last.status = 500
    /\ Len(boards) >= 1

\* C22: over the sessions selected by the optional user and the inclusive
\* activityDate range, the report answers totalSessions = the number of
\* ended sessions, averageSessionMinutes = 0 when none has ended, and
\* activeDays = the number of distinct activityDate values of all selected
\* sessions, the open ones included.
C22_ActivityStatsCounts ==
    (last.op = "activityStats" /\ last.status = 200)
      => LET q == last.query
             selected ==
               {s \in 1..Len(sessions) :
                  /\ q.userId = Unset \/ sessions[s].userId = q.userId
                  /\ q.startDate = Absent
                       \/ sessions[s].startedAt \div MsPerDay
                            >= q.startDate \div MsPerDay
                  /\ q.endDate = Absent
                       \/ sessions[s].startedAt \div MsPerDay
                            <= q.endDate \div MsPerDay}
             ended == {s \in selected : sessions[s].endedAt # Null}
         IN  /\ last.stats.totalSessions = Cardinality(ended)
             /\ ended = {} => last.stats.averageSessionMinutes = 0
             /\ last.stats.activeDays =
                  Cardinality({sessions[s].activityDate : s \in selected})

\* a report over a user and a date range selected an ended session and an
\* open session of another day, and counted both days
C22_Witness ==
    /\ last.op = "activityStats" /\ last.status = 200
    /\ last.query.userId # Unset
    /\ last.query.startDate # Absent /\ last.query.endDate # Absent
    /\ last.stats.totalSessions = 1
    /\ last.stats.activeDays = 2
    /\ \E s \in SelectedSessions(last.query) : sessions[s].endedAt = Null
    /\ \E s \in 1..Len(sessions) : s \notin SelectedSessions(last.query)

====
